---------------------------- MODULE Spec2Model ----------------------------
(* A model of the tokenizer HTTP API of src/backend/main.py: the three     *)
(* helpers (tokenize_text_helper, get_vocabulary_helper, get_stats_helper) *)
(* and the three endpoints that map their exceptions to HTTP statuses.     *)
(*                                                                         *)
(* Strings are sequences of characters (each character an atom), byte      *)
(* strings are sequences of integers.  The encoder the code imports        *)
(* (tiktoken) is modelled on a miniature vocabulary with the shape of      *)
(* cl100k_base: single-byte tokens, merged tokens, an unassigned ID, and a *)
(* special token as the last ID.                                           *)
EXTENDS Integers, Sequences, FiniteSets, TLC

VARIABLES
    vocab,     \* the encodings the process has loaded (read-only data)
    req,       \* the request being served, NoRequest between requests
    resp,      \* the response to req
    failed,    \* whether some answered request ended in an HTTP error
    seen,      \* what the answered requests reported about the vocabulary
    pager      \* a caller that pages through /vocabulary by showing_end

vars == <<vocab, req, resp, failed, seen, pager>>

-----------------------------------------------------------------------------
(* Bounds of the request inputs the model enumerates.                      *)

MaxTextLen == 2
MaxStart == 12
MaxLimit == 3

-----------------------------------------------------------------------------
(* Characters and UTF-8.                                                   *)

\* U+FFFD, what bytes.decode(errors="replace") puts for an invalid byte
REPL == "U+FFFD"

\* the UTF-8 encoding of each character of the model's alphabet
Utf8Char(c) ==
    CASE c = "<" -> <<60>>
      [] c = ">" -> <<62>>
      [] c = "A" -> <<65>>
      [] c = "a" -> <<97>>
      [] c = "E_acute" -> <<195, 137>>
      [] c = "e_acute" -> <<195, 169>>
      [] c = REPL -> <<239, 191, 189>>

\* str.lower() on one character
LowerChar(c) ==
    CASE c = "A" -> "a"
      [] c = "E_acute" -> "e_acute"
      [] OTHER -> c

\* str.lower()
Lower(s) == [i \in 1..Len(s) |-> LowerChar(s[i])]

\* Python's `needle in hay` on strings
Contains(hay, needle) ==
    \E k \in 0..(Len(hay) - Len(needle)) :
        SubSeq(hay, k + 1, k + Len(needle)) = needle

RECURSIVE Utf8Encode(_)
\* str.encode('utf-8')
Utf8Encode(s) ==
    IF s = <<>> THEN <<>> ELSE Utf8Char(Head(s)) \o Utf8Encode(Tail(s))

RECURSIVE Utf8DecodeReplace(_)
\* bytes.decode("utf-8", errors="replace"): every byte that does not start a
\* well-formed sequence becomes one U+FFFD
Utf8DecodeReplace(bs) ==
    IF bs = <<>> THEN <<>>
    ELSE LET b == Head(bs) IN
         IF b = 60 THEN <<"<">> \o Utf8DecodeReplace(Tail(bs))
         ELSE IF b = 62 THEN <<">">> \o Utf8DecodeReplace(Tail(bs))
         ELSE IF b = 65 THEN <<"A">> \o Utf8DecodeReplace(Tail(bs))
         ELSE IF b = 97 THEN <<"a">> \o Utf8DecodeReplace(Tail(bs))
         ELSE IF b = 195 /\ Len(bs) >= 2 /\ bs[2] = 137
              THEN <<"E_acute">> \o Utf8DecodeReplace(SubSeq(bs, 3, Len(bs)))
         ELSE IF b = 195 /\ Len(bs) >= 2 /\ bs[2] = 169
              THEN <<"e_acute">> \o Utf8DecodeReplace(SubSeq(bs, 3, Len(bs)))
         ELSE IF b = 239 /\ Len(bs) >= 3 /\ bs[2] = 191 /\ bs[3] = 189
              THEN <<REPL>> \o Utf8DecodeReplace(SubSeq(bs, 4, Len(bs)))
         ELSE <<REPL>> \o Utf8DecodeReplace(Tail(bs))

-----------------------------------------------------------------------------
(* The encoder.  An encoding is [name, table]; table[i + 1] is the entry   *)
(* of token ID i: bytes of a mergeable token, the text of a special token, *)
(* or nothing (an ID below n_vocab that no token has).                     *)

Rank(bs) == [kind |-> "bytes", bytes |-> bs]
Special(s) == [kind |-> "special", text |-> s]
Unassigned == [kind |-> "none"]

\* miniature cl100k_base: IDs 0..8 are byte-pair tokens, 9 is unassigned
\* (as 100256 is), 10 is a special token (as 100257..100276 are)
Cl100kTable ==
    << Rank(<<60>>), Rank(<<62>>), Rank(<<65>>), Rank(<<97>>),
       Rank(<<137>>), Rank(<<169>>), Rank(<<195>>),
       Rank(<<97, 97>>), Rank(<<195, 169>>),
       Unassigned, Special(<<"<", ">">>) >>

\* miniature gpt2: another table, with other merges
Gpt2Table ==
    << Rank(<<60>>), Rank(<<62>>), Rank(<<65>>), Rank(<<97>>),
       Rank(<<137>>), Rank(<<169>>), Rank(<<195>>),
       Rank(<<65, 97>>), Special(<<"<", ">">>) >>

\* the registry tiktoken.get_encoding reads
Encodings ==
    [cl100k_base |-> [name |-> "cl100k_base", table |-> Cl100kTable],
     gpt2 |-> [name |-> "gpt2", table |-> Gpt2Table]]

Ok(v) == [ok |-> TRUE, value |-> v]
Raise(e) == [ok |-> FALSE, error |-> e]

\* tiktoken.get_encoding(name): the encoding, or the exception of a failed
\* load (`loads` says whether the encoding's data can be loaded)
get_encoding(registry, name, loads) ==
    IF loads THEN Ok(registry[name]) ELSE Raise("LoadError")

\* tiktoken.encoding_for_model(model): KeyError for a model name that maps
\* to no encoding
encoding_for_model(registry, model, loads) ==
    IF model \in {"gpt-3.5-turbo", "gpt-4", "gpt-4-turbo"}
    THEN get_encoding(registry, "cl100k_base", loads)
    ELSE IF model = "gpt2"
    THEN get_encoding(registry, "gpt2", loads)
    ELSE Raise("KeyError")

\* Encoding.n_vocab: the largest token ID plus one
n_vocab(enc) == Len(enc.table)

\* the IDs of the byte-pair tokens of an encoding
RankIds(enc) == {i \in 0..(n_vocab(enc) - 1) : enc.table[i + 1].kind = "bytes"}
SpecialIds(enc) ==
    {i \in 0..(n_vocab(enc) - 1) : enc.table[i + 1].kind = "special"}

\* the bytes of one token ID; an ID that is negative, beyond the table or
\* unassigned raises
TokenBytes(enc, i) ==
    IF i < 0 THEN Raise("OverflowError")
    ELSE IF i >= n_vocab(enc) THEN Raise("KeyError")
    ELSE LET e == enc.table[i + 1] IN
         IF e.kind = "bytes" THEN Ok(e.bytes)
         ELSE IF e.kind = "special" THEN Ok(Utf8Encode(e.text))
         ELSE Raise("KeyError")

RECURSIVE DecodeBytes(_, _)
\* Encoding.decode_bytes(tokens)
DecodeBytes(enc, tokens) ==
    IF tokens = <<>> THEN Ok(<<>>)
    ELSE LET h == TokenBytes(enc, Head(tokens))
             t == DecodeBytes(enc, Tail(tokens))
         IN  IF ~h.ok THEN h
             ELSE IF ~t.ok THEN t
             ELSE Ok(h.value \o t.value)

\* Encoding.decode(tokens): decode_bytes, then UTF-8 with errors="replace"
Decode(enc, tokens) ==
    LET b == DecodeBytes(enc, tokens) IN
    IF b.ok THEN Ok(Utf8DecodeReplace(b.value)) ELSE b

\* the rank (token ID) of a byte string, or -1
RankOf(enc, bs) ==
    IF \E i \in RankIds(enc) : enc.table[i + 1].bytes = bs
    THEN CHOOSE i \in RankIds(enc) : enc.table[i + 1].bytes = bs
    ELSE -1

RECURSIVE BytePairMerge(_, _)
\* byte-pair merging: while some adjacent pair of parts is a token, merge the
\* pair of lowest rank (the leftmost of them)
BytePairMerge(enc, parts) ==
    LET cand == {k \in 1..(Len(parts) - 1) :
                    RankOf(enc, parts[k] \o parts[k + 1]) >= 0}
    IN  IF cand = {} THEN parts
        ELSE LET best == CHOOSE k \in cand :
                            \A j \in cand :
                               LET rk == RankOf(enc, parts[k] \o parts[k + 1])
                                   rj == RankOf(enc, parts[j] \o parts[j + 1])
                               IN  rk < rj \/ (rk = rj /\ k <= j)
             IN  BytePairMerge(enc,
                    SubSeq(parts, 1, best - 1)
                    \o << parts[best] \o parts[best + 1] >>
                    \o SubSeq(parts, best + 2, Len(parts)))

\* Encoding.encode(text) with its defaults: ValueError when the text holds
\* the text of a special token, else the ranks of the merged parts
Encode(enc, text) ==
    IF \E i \in SpecialIds(enc) : Contains(text, enc.table[i + 1].text)
    THEN Raise("ValueError")
    ELSE LET bs == Utf8Encode(text)
             parts == BytePairMerge(enc, [k \in 1..Len(bs) |-> <<bs[k]>>])
         IN  Ok([k \in 1..Len(parts) |-> RankOf(enc, parts[k])])

-----------------------------------------------------------------------------
(* The helpers.  Each returns Ok(result) or Raise(exception).              *)

\* a variant of Position: the 0-based index is stored as it is
PositionZeroBased(idx) == idx

\* enumerate() counts from 0; the record's position is idx + 1
Position(idx) == idx + 1

\* one element of token_details
TokenDetail(idx, token_id, token_str) ==
    [position |-> Position(idx),
     token_id |-> token_id,
     token_string |-> token_str,
     byte_length |-> Len(Utf8Encode(token_str))]

\* a variant of TokenStrings: every element is the decode of the whole list
TokenStringsOfWhole(enc, tokens) ==
    [k \in 1..Len(tokens) |-> Decode(enc, tokens)]

\* [encoding.decode([token]) for token in tokens]
TokenStrings(enc, tokens) ==
    [k \in 1..Len(tokens) |-> Decode(enc, <<tokens[k]>>)]

tokenize_text_helper(registry, text, model, loads) ==
    LET encoding == encoding_for_model(registry, model, loads) IN
    IF ~encoding.ok THEN encoding
    ELSE LET tokens == Encode(encoding.value, text) IN
         IF ~tokens.ok THEN tokens
         ELSE LET decoded == TokenStrings(encoding.value, tokens.value) IN
              IF \E k \in 1..Len(decoded) : ~decoded[k].ok
              THEN decoded[CHOOSE k \in 1..Len(decoded) : ~decoded[k].ok]
              ELSE LET token_strings ==
                           [k \in 1..Len(decoded) |-> decoded[k].value]
                   IN  Ok([tokens |-> tokens.value,
                           token_strings |-> token_strings,
                           count |-> Len(tokens.value),
                           token_details |->
                               [k \in 1..Len(tokens.value) |->
                                   TokenDetail(k - 1, tokens.value[k],
                                               token_strings[k])],
                           model |-> model,
                           original_text |-> text])

Min(a, b) == IF a <= b THEN a ELSE b

\* a variant of WindowEnd: the end is not clamped to the vocabulary size
WindowEndUnclamped(start, limit, total_vocab_size) == start + limit

\* a variant of WindowEnd: the end is never before the start
WindowEndNotBeforeStart(start, limit, total_vocab_size) ==
    IF Min(start + limit, total_vocab_size) < start THEN start
    ELSE Min(start + limit, total_vocab_size)

\* end = min(start + limit, total_vocab_size)
WindowEnd(start, limit, total_vocab_size) ==
    Min(start + limit, total_vocab_size)

\* a variant of Matches: the comparison is case-sensitive
MatchesCaseSensitive(search, token_str) ==
    search = <<>> \/ Contains(token_str, search)

\* search == "" or search.lower() in token_str.lower()
Matches(search, token_str) ==
    search = <<>> \/ Contains(Lower(token_str), Lower(search))

\* "[SPECIAL_TOKEN]", as the characters "[", "SPECIAL_TOKEN", "]"
SpecialTokenMarker == <<"[", "SPECIAL_TOKEN", "]">>

\* a variant of VocabEntry: the marker entry is appended under any search
VocabEntryMarkerAlways(enc, i, search) ==
    LET token_str == Decode(enc, <<i>>) IN
    IF token_str.ok
    THEN IF Matches(search, token_str.value)
         THEN << [token_id |-> i,
                  token_string |-> token_str.value,
                  length |-> Len(token_str.value)] >>
         ELSE <<>>
    ELSE << [token_id |-> i,
             token_string |-> SpecialTokenMarker,
             length |-> 0] >>

\* the body of the loop for one i: what it appends to vocab_list
VocabEntry(enc, i, search) ==
    LET token_str == Decode(enc, <<i>>) IN
    IF token_str.ok
    THEN IF Matches(search, token_str.value)
         THEN << [token_id |-> i,
                  token_string |-> token_str.value,
                  length |-> Len(token_str.value)] >>
         ELSE <<>>
    ELSE IF search = <<>>
         THEN << [token_id |-> i,
                  token_string |-> SpecialTokenMarker,
                  length |-> 0] >>
         ELSE <<>>

RECURSIVE VocabListInclusive(_, _, _, _)
\* a variant of VocabList: the loop also visits `end`
VocabListInclusive(enc, i, end, search) ==
    IF i > end THEN <<>>
    ELSE VocabEntry(enc, i, search)
         \o VocabListInclusive(enc, i + 1, end, search)

RECURSIVE VocabList(_, _, _, _)
\* for i in range(start, end): ...
VocabList(enc, i, end, search) ==
    IF i >= end THEN <<>>
    ELSE VocabEntry(enc, i, search) \o VocabList(enc, i + 1, end, search)

get_vocabulary_helper(registry, start, limit, search, loads) ==
    LET encoding == get_encoding(registry, "cl100k_base", loads) IN
    IF ~encoding.ok THEN encoding
    ELSE LET total_vocab_size == n_vocab(encoding.value)
             end == WindowEnd(start, limit, total_vocab_size)
             vocab_list == VocabList(encoding.value, start, end, search)
         IN  Ok([vocabulary |-> vocab_list,
                 total_size |-> total_vocab_size,
                 showing_start |-> start,
                 showing_end |-> end,
                 count |-> Len(vocab_list),
                 search_term |-> search])

\* a variant of StatsEncodingName: the statistics are those of another table
StatsEncodingNameOther == "gpt2"

\* the encoding get_stats_helper reports
StatsEncodingName == "cl100k_base"

get_stats_helper(registry, loads) ==
    LET encoding == get_encoding(registry, StatsEncodingName, loads) IN
    IF ~encoding.ok THEN encoding
    ELSE Ok([encoding_name |-> encoding.value.name,
             total_tokens |-> n_vocab(encoding.value),
             description |-> "GPT-3.5/GPT-4 vocabulary (cl100k_base)",
             supported_models |-> <<"gpt-3.5-turbo", "gpt-4", "gpt-4-turbo">>])

-----------------------------------------------------------------------------
(* The endpoints: the helper's result, or HTTPException(status, detail).   *)

HTTPException(status_code, e) ==
    [status |-> status_code, detail |-> <<"Error: ", e>>]

Success(result) == [status |-> 200, body |-> result]

TokenizeErrorStatus == 400
VocabularyErrorStatus == 400
StatsErrorStatus == 500

tokenize_text(registry, request) ==
    LET result == tokenize_text_helper(registry, request.text, request.model,
                                       request.loads)
    IN  IF result.ok THEN Success(result.value)
        ELSE HTTPException(TokenizeErrorStatus, result.error)

get_vocabulary(registry, request) ==
    LET result == get_vocabulary_helper(registry, request.start, request.limit,
                                        request.search, request.loads)
    IN  IF result.ok THEN Success(result.value)
        ELSE HTTPException(VocabularyErrorStatus, result.error)

\* a variant of get_stats: a failure is reported with the status of the
\* other two endpoints
get_stats_status_400(registry, request) ==
    LET stats == get_stats_helper(registry, request.loads)
    IN  IF stats.ok THEN Success(stats.value)
        ELSE HTTPException(VocabularyErrorStatus, stats.error)

get_stats(registry, request) ==
    LET stats == get_stats_helper(registry, request.loads)
    IN  IF stats.ok THEN Success(stats.value)
        ELSE HTTPException(StatsErrorStatus, stats.error)

-----------------------------------------------------------------------------
(* Requests.                                                               *)

TextChars == {"<", ">", "A", "a", "E_acute", "e_acute"}
Texts == UNION {[1..n -> TextChars] : n \in 0..MaxTextLen}
Models == {"gpt-3.5-turbo", "gpt-4", "gpt-4-turbo", "gpt2", "no-such-model"}
Starts == (-1)..MaxStart
Limits == (-1)..MaxLimit
Searches ==
    {<<>>, <<"a">>, <<"A">>, <<"e_acute">>, <<"E_acute">>, <<"a", "A">>,
     <<">">>, <<REPL>>, <<"[">>}

NoRequest == [op |-> "none"]
NoResponse == [status |-> 0]
NoPager ==
    [active |-> FALSE, limit |-> 0, search |-> <<>>, start |-> 0,
     pages |-> 0, empty |-> 0, got |-> <<>>, done |-> FALSE]

NothingSeen == [stats |-> {}, totals |-> {}]

Init ==
    /\ vocab = Encodings
    /\ req = NoRequest
    /\ resp = NoResponse
    /\ failed = FALSE
    /\ seen = NothingSeen
    /\ pager = NoPager

\* a request arrives only between requests: a handler has no await in it,
\* so it runs from its first line to its return without another one starting
Idle == req = NoRequest /\ ~pager.active

\* POST /tokenize
Tokenize ==
    \E text \in Texts, model \in Models, loads \in BOOLEAN :
        /\ Idle
        /\ req' = [op |-> "tokenize", text |-> text, model |-> model,
                   loads |-> loads]
        /\ resp' = tokenize_text(vocab, req')
        /\ UNCHANGED <<vocab, failed, seen, pager>>

\* POST /vocabulary
Vocabulary ==
    \E start \in Starts, limit \in Limits, search \in Searches,
       loads \in BOOLEAN :
        /\ Idle
        /\ req' = [op |-> "vocabulary", start |-> start, limit |-> limit,
                   search |-> search, loads |-> loads]
        /\ resp' = get_vocabulary(vocab, req')
        /\ UNCHANGED <<vocab, failed, seen, pager>>

\* GET /stats
Stats ==
    \E loads \in BOOLEAN :
        /\ Idle
        /\ req' = [op |-> "stats", loads |-> loads]
        /\ resp' = get_stats(vocab, req')
        /\ UNCHANGED <<vocab, failed, seen, pager>>

\* what a response adds to the record of what was reported
Seen(old, request, response) ==
    IF response.status # 200 THEN old
    ELSE IF request.op = "stats"
    THEN [old EXCEPT !.stats = @ \cup {response.body}]
    ELSE IF request.op = "vocabulary"
    THEN [old EXCEPT !.totals = @ \cup {response.body.total_size}]
    ELSE old

\* the response is sent; nothing of the request is kept by the process
Respond ==
    /\ req # NoRequest
    /\ ~pager.active
    /\ req' = NoRequest
    /\ resp' = NoResponse
    /\ failed' = (failed \/ resp.status # 200)
    /\ seen' = Seen(seen, req, resp)
    /\ UNCHANGED <<vocab, pager>>

Next == Tokenize \/ Vocabulary \/ Stats \/ Respond

Spec == Init /\ [][Next]_vars

-----------------------------------------------------------------------------
(* A caller that pages forward: it starts at 0 and asks for the next page  *)
(* at the showing_end of the page before, with limit and search fixed.     *)

PageStart ==
    \E limit \in 1..MaxLimit, search \in Searches :
        /\ Idle
        /\ pager' = [active |-> TRUE, limit |-> limit, search |-> search,
                     start |-> 0, pages |-> 0, empty |-> 0, got |-> <<>>,
                     done |-> FALSE]
        /\ UNCHANGED <<vocab, req, resp, failed, seen>>

PageNext ==
    /\ pager.active
    /\ ~pager.done
    /\ req' = [op |-> "vocabulary", start |-> pager.start,
               limit |-> pager.limit, search |-> pager.search,
               loads |-> TRUE]
    /\ resp' = get_vocabulary(vocab, req')
    /\ LET page == resp'.body IN
       pager' = [pager EXCEPT
                    !.start = page.showing_end,
                    !.pages = @ + 1,
                    !.empty = @ + (IF page.count = 0 THEN 1 ELSE 0),
                    !.got = @ \o [k \in 1..Len(page.vocabulary) |->
                                     page.vocabulary[k].token_id],
                    !.done = (page.showing_end = page.total_size)]
    /\ UNCHANGED <<vocab, failed, seen>>

NextPaging == PageStart \/ PageNext

SpecPaging == Init /\ [][NextPaging]_vars /\ WF_vars(PageNext)

-----------------------------------------------------------------------------
(* Properties.                                                             *)

\* a /vocabulary request has been answered with a page
PageServed == req # NoRequest /\ req.op = "vocabulary" /\ resp.status = 200

\* a /tokenize request has been answered with a result
TokensServed == req # NoRequest /\ req.op = "tokenize" /\ resp.status = 200

\* the vocabulary size the process was started with
TotalSize == Len(Cl100kTable)

\* the token IDs of a vocabulary list, in the order of the list
IdsOf(vocabulary) == [k \in 1..Len(vocabulary) |-> vocabulary[k].token_id]

\* a sequence of integers is strictly ascending
Ascending(ids) == \A k \in 1..(Len(ids) - 1) : ids[k] < ids[k + 1]

\* decoding the single ID i fails
DecodeFails(i) == ~Decode(Encodings.cl100k_base, <<i>>).ok

\* the end of the window the contract names: min(start + limit, total)
ContractEnd(start, limit, total) ==
    IF start + limit <= total THEN start + limit ELSE total

\* C1: for a /vocabulary request with start >= 0 and limit > 0 and any search
\* string, the page has showing_start = start and showing_end =
\* min(start + limit, total_size), however many entries the filter removed.
C1_ShowingWindow ==
    (PageServed /\ req.start >= 0 /\ req.limit > 0) =>
        /\ resp.body.showing_start = req.start
        /\ resp.body.showing_end =
              ContractEnd(req.start, req.limit, resp.body.total_size)

\* C1's case: a search removed entries from a window that the vocabulary
\* size cut short
C1_Witness ==
    /\ PageServed /\ req.start >= 0 /\ req.limit > 0
    /\ req.search # <<>>
    /\ req.start + req.limit > resp.body.total_size
    /\ 0 < resp.body.count
    /\ resp.body.count < resp.body.showing_end - resp.body.showing_start

MarkerPolicy ==
    LET page == resp.body
        ids == IdsOf(page.vocabulary)
        last == ContractEnd(req.start, req.limit, page.total_size) - 1
    IN  /\ req.search = <<>> =>
              /\ Ascending(ids)
              /\ {ids[k] : k \in 1..Len(ids)} = req.start..last
              /\ \A k \in 1..Len(ids) :
                    DecodeFails(ids[k]) <=>
                       (/\ page.vocabulary[k].token_string = SpecialTokenMarker
                        /\ page.vocabulary[k].length = 0)
        /\ req.search # <<>> =>
              \A k \in 1..Len(ids) :
                 /\ ~DecodeFails(ids[k])
                 /\ page.vocabulary[k].token_string # SpecialTokenMarker

C5_TokenizeResultShape ==
    TokensServed =>
        LET r == resp.body
            enc == encoding_for_model(Encodings, req.model, TRUE).value
            ids == Encode(enc, req.text).value
        IN  /\ r.count = Len(ids)
            /\ r.tokens = ids
            /\ Len(r.tokens) = r.count
            /\ Len(r.token_strings) = r.count
            /\ Len(r.token_details) = r.count
            /\ \A i \in 1..r.count :
                  /\ r.token_details[i].position = i
                  /\ r.token_details[i].token_id = r.tokens[i]
                  /\ r.token_details[i].token_string = r.token_strings[i]
                  /\ r.token_strings[i] = Decode(enc, <<r.tokens[i]>>).value

\* C5's case: a text of several tokens, the last of them part of a character
\* (its string is U+FFFD, three bytes long)
C5_Witness ==
    /\ TokensServed
    /\ resp.body.count >= 2
    /\ resp.body.token_details[resp.body.count].position = resp.body.count
    /\ resp.body.token_details[resp.body.count].byte_length = 3

\* C9: every page has 0 <= showing_start <= showing_end <= total_size and
\* every token_id of its list in [0, total_size), for every request the
\* endpoint accepts.
C9_PageWithinVocabulary ==
    PageServed =>
        /\ 0 <= resp.body.showing_start
        /\ resp.body.showing_start <= resp.body.showing_end
        /\ resp.body.showing_end <= resp.body.total_size
        /\ \A k \in 1..Len(resp.body.vocabulary) :
              resp.body.vocabulary[k].token_id \in
                 0..(resp.body.total_size - 1)

\* the request cannot be served: the encoding cannot be loaded, or (tokenize)
\* the model names no encoding or the text holds the text of a special token
MustFail(r) ==
    \/ ~r.loads
    \/ /\ r.op = "tokenize"
       /\ \/ r.model \notin {"gpt-3.5-turbo", "gpt-4", "gpt-4-turbo", "gpt2"}
          \/ Contains(r.text, <<"<", ">">>)

\* C6: a failure while serving /tokenize (an unresolvable model included) or
\* /vocabulary gives HTTP 400 with a detail message and no result, a failure
\* while serving /stats gives HTTP 500; a request without failure gives the
\* result with status 200; after a failed request every endpoint still
\* accepts requests and answers them by the same rule.
C6_ErrorMapping ==
    /\ req # NoRequest =>
          IF MustFail(req)
          THEN /\ resp.status = (IF req.op = "stats" THEN 500 ELSE 400)
               /\ DOMAIN resp = {"status", "detail"}
               /\ resp.detail[1] = "Error: "
          ELSE /\ resp.status = 200
               /\ DOMAIN resp = {"status", "body"}
    /\ (failed /\ req = NoRequest) =>
          ENABLED Tokenize /\ ENABLED Vocabulary /\ ENABLED Stats

\* C6's case: after a request that failed, a /stats request fails with 500
C6_Witness ==
    /\ failed
    /\ req # NoRequest /\ req.op = "stats"
    /\ resp.status = 500

RECURSIVE Concat(_)
\* the concatenation of a list of strings
Concat(strs) == IF strs = <<>> THEN <<>> ELSE Head(strs) \o Concat(Tail(strs))

\* the encoding a tokenize request resolved to
EncodingOf(r) == encoding_for_model(Encodings, r.model, TRUE).value

\* C7 as stated: for every text tokenize accepts, the concatenation of the
\* token_strings is the text, and is the decode of the whole ID sequence.
C7_ConcatIsText ==
    TokensServed =>
        /\ Concat(resp.body.token_strings) = req.text
        /\ Concat(resp.body.token_strings) =
              Decode(EncodingOf(req), resp.body.tokens).value

\* every token's bytes are well-formed UTF-8 on their own: no character of
\* the text has its bytes split over two tokens
NoSplitCharacter ==
    \A i \in 1..Len(resp.body.tokens) :
        LET bytes == TokenBytes(EncodingOf(req), resp.body.tokens[i]).value
        IN  Utf8Encode(Utf8DecodeReplace(bytes)) = bytes

\* C7 amended: for every text tokenize accepts, the decode of the whole ID
\* sequence is the text; the concatenation of the token_strings is the text
\* when no character's bytes are split over two tokens (a token that holds
\* part of a character decodes to U+FFFD, and the concatenation differs).
C7_ConcatIsTextUnlessSplit ==
    TokensServed =>
        /\ Decode(EncodingOf(req), resp.body.tokens).value = req.text
        /\ NoSplitCharacter => Concat(resp.body.token_strings) = req.text
        /\ (~NoSplitCharacter /\ \A k \in 1..Len(req.text) : req.text[k] # REPL)
              => Concat(resp.body.token_strings) # req.text

\* C7's case: a text with a two-byte character that one token holds whole,
\* beside another token
C7_Witness ==
    /\ TokensServed
    /\ resp.body.count = 2
    /\ NoSplitCharacter
    /\ \E i \in 1..2 : resp.body.token_strings[i] = <<"e_acute">>

\* the IDs below `bound` that a search selects: all of them under the empty
\* search, else those whose decode succeeds and matches
Selected(search, bound) ==
    {i \in 0..(bound - 1) :
        \/ search = <<>>
        \/ /\ ~DecodeFails(i)
           /\ Contains(Lower(Decode(Encodings.cl100k_base, <<i>>).value),
                       Lower(search))}

\* after n pages: the windows were [0, limit), [limit, 2 limit), ... up to
\* the vocabulary size, and the caller holds the selected IDs below the last
\* showing_end, each once, ascending
PagingInv ==
    pager.active =>
        /\ pager.start = ContractEnd(0, pager.pages * pager.limit, TotalSize)
        /\ pager.pages > 0 =>
              /\ resp.body.showing_start = (pager.pages - 1) * pager.limit
              /\ resp.body.showing_start < resp.body.showing_end
              /\ resp.body.showing_end = pager.start
        /\ Ascending(pager.got)
        /\ {pager.got[k] : k \in 1..Len(pager.got)} =
              Selected(pager.search, pager.start)
        /\ pager.done <=> (pager.start = TotalSize)

\* C8: a caller that starts at 0 with a fixed limit > 0 and search and asks
\* for each next page at the showing_end of the one before scans contiguous,
\* non-overlapping windows, reaches showing_end = total_size after finitely
\* many requests, and has then received every selected ID of [0, total_size)
\* once, ascending, also when pages came back empty.
C8_PagingForward == []PagingInv /\ (pager.active ~> pager.done)

\* C8's case: the caller reached the end over several pages, some of them
\* empty, and received several IDs
C8_Witness ==
    /\ pager.active /\ pager.done
    /\ pager.pages >= 4
    /\ pager.empty >= 2
    /\ Len(pager.got) >= 2

\* the answer a process that has served nothing gives to a request
Alone(r) ==
    IF r.op = "tokenize" THEN tokenize_text(Encodings, r)
    ELSE IF r.op = "vocabulary" THEN get_vocabulary(Encodings, r)
    ELSE get_stats(Encodings, r)

\* what /stats reports, whenever it is asked
FixedStats ==
    [encoding_name |-> "cl100k_base",
     total_tokens |-> TotalSize,
     description |-> "GPT-3.5/GPT-4 vocabulary (cl100k_base)",
     supported_models |-> <<"gpt-3.5-turbo", "gpt-4", "gpt-4-turbo">>]

\* every answer is the one the request gets alone, and all answers so far
\* agree on the statistics and on the vocabulary size
Stateless ==
    /\ req # NoRequest => resp = Alone(req)
    /\ seen.stats \subseteq {FixedStats}
    /\ \A t \in seen.totals : t = FixedStats.total_tokens
    /\ (req # NoRequest /\ req.op = "stats" /\ resp.status = 200) =>
          /\ resp.body = FixedStats
          /\ \A t \in seen.totals : resp.body.total_tokens = t
    /\ PageServed =>
          \A st \in seen.stats : st.total_tokens = resp.body.total_size

=============================================================================
